---- MODULE Spec2Model ----
(***************************************************************************)
(* State-machine model of the reusable LVGL widgets of the ESP32 Hebrew    *)
(* GUI firmware: lv_image_gallery (indexed carousel), lv_pull_refresh      *)
(* (scroll driven refresh gesture) and lv_expandable_card (collapsible     *)
(* text card).  Every action is one public function or one LVGL event      *)
(* handler of ESP32/lib/widgets.                                           *)
(***************************************************************************)
EXTENDS Integers, Sequences, FiniteSets, TLC

(***************************************************************************)
(* Bounds of the model                                                     *)
(***************************************************************************)
\* largest image_count handed to lv_image_gallery_create
MaxImages == 3

\* pointer values
NULL == "NULL"
OBJ == "obj"

\* an LVGL object that is no widget container: its user data is NULL
PLAIN == "plain"

(***************************************************************************)
(* C integer helpers                                                       *)
(***************************************************************************)
\* C's % operator: the remainder of a division that truncates towards zero
CRem(a, b) ==
    IF a >= 0 THEN a % b ELSE 0 - ((0 - a) % b)

(***************************************************************************)
(* lv_image_gallery                                                        *)
(***************************************************************************)
VARIABLES
    g_container,     \* TRUE while the gallery container object is in the tree
    g_user_data,     \* user data of the container: NULL, "live" or "dangling"
    g_handle,        \* what lv_image_gallery_create returned to its caller
    g_prev_btn,      \* TRUE while the Previous button exists
    g_next_btn,      \* TRUE while the Next button exists
    image_count,     \* lv_gallery_data_t.image_count
    current_index,   \* lv_gallery_data_t.current_index
    g_shown,         \* what img_obj and counter_label display
    g_frees,         \* how many times the data block of this container was freed
    g_uaf,           \* TRUE once freed gallery data has been read or written
    g_op,            \* the last gallery operation
    g_obj,           \* the object it was called on
    g_arg,           \* its integer argument
    g_old,           \* current_index and display before the last operation
    g_ret            \* its return value

gvars == <<g_container, g_user_data, g_handle, g_prev_btn, g_next_btn,
           image_count, current_index, g_shown, g_frees, g_uaf,
           g_op, g_obj, g_arg, g_old, g_ret>>

\* the state of the lv_pull_refresh container
VARIABLES
    p_container,     \* TRUE while the pull-refresh container is in the tree
    p_user_data,     \* user data of the container: NULL or "live"
    p_handle,        \* what lv_pull_refresh_create returned to its caller
    p_blocks,        \* number of allocated lv_pull_refresh_data_t blocks
    pd,              \* the lv_pull_refresh_data_t block
    scroll_y,        \* lv_obj_get_scroll_y(container)
    tick,            \* lv_tick_get()
    p_hist,          \* history: is a refresh in progress, was it completed
    p_op,            \* the last pull-refresh operation
    p_obj,           \* the object it was called on
    p_arg,           \* its arguments
    p_old,           \* pd and p_hist before the last operation
    p_calls,         \* the callbacks and LVGL calls it made, in order
    p_ret            \* its return value

pvars == <<p_container, p_user_data, p_handle, p_blocks, pd, scroll_y, tick,
           p_hist, p_op, p_obj, p_arg, p_old, p_calls, p_ret>>

VARIABLES
    c_container,     \* TRUE while the card container is in the tree
    c_user_data,     \* user data of the container: NULL or "live"
    c_handle,        \* what lv_expandable_card_create returned to its caller
    c_blocks,        \* number of allocated lv_card_widget_data_t blocks
    cd,              \* the lv_card_widget_data_t block
    c_op,            \* the last card operation
    c_obj,           \* the object it was called on
    c_arg,           \* its argument
    c_old,           \* cd before the last operation
    c_calls,         \* the callbacks it made, in order
    c_ret,           \* its return value
    c_prev           \* the operation before the last one

cvars == <<c_container, c_user_data, c_handle, c_blocks, cd, c_op, c_obj,
           c_arg, c_old, c_calls, c_ret, c_prev>>

\* The widgets share no state: each action reads and writes the variables of
\* its own widget only, so a behaviour of the firmware is an interleaving of
\* behaviours of the single widgets.  A behaviour of the model exercises one
\* widget and leaves the other two as they are initially.
GalleryTurn == p_op = "none" /\ c_op = "none"

PullTurn == g_op = "none" /\ c_op = "none"

CardTurn == g_op = "none" /\ p_op = "none"

\* nothing displayed yet
NoDisplay == [img |-> -1, counter |-> <<>>]

\* values a read of freed memory may produce for an index
GarbageInts == {-1, 0, MaxImages}

\* a lookup that reads the container's block whatever object it is handed
get_gallery_data_ObjectUnchecked(gallery) ==
    g_user_data

\* lv_obj_get_user_data on a gallery handle, then the two NULL checks
get_gallery_data(gallery) ==
    IF gallery = NULL THEN NULL
    ELSE IF gallery = PLAIN \/ g_user_data = NULL THEN NULL
    ELSE g_user_data

\* update_gallery_display: the image source and the "%d / %d - %s" counter
update_gallery_display(index, count, shown) ==
    IF index < 0 \/ index >= count THEN shown
    ELSE [img |-> index, counter |-> <<index + 1, count>>]

\* a next that stops at the last image instead of wrapping
NextIndexClamped(index, count) ==
    IF index + 1 >= count THEN index ELSE index + 1

\* (current_index + 1) % image_count
NextIndex(index, count) == CRem(index + 1, count)

\* a prev that forgets to add image_count before the remainder
PrevIndexNoBias(index, count) == CRem(index - 1, count)

\* (current_index - 1 + image_count) % image_count
PrevIndex(index, count) == CRem(index - 1 + count, count)

\* a range check that is off by one at the upper end
IndexInRangeOffByOne(index, count) == index >= 0 /\ index <= count

\* the negation of (index < 0 || index >= data->image_count)
IndexInRange(index, count) == index >= 0 /\ index < count

\* validate_images_array
validate_images_array(images, count) ==
    /\ images # NULL
    /\ count > 0
    /\ images # "null_src"

InitGallery ==
    /\ g_container = FALSE
    /\ g_user_data = NULL
    /\ g_handle = NULL
    /\ g_prev_btn = FALSE
    /\ g_next_btn = FALSE
    /\ image_count = 0
    /\ current_index = 0
    /\ g_shown = NoDisplay
    /\ g_frees = 0
    /\ g_uaf = FALSE
    /\ g_op = "none"
    /\ g_obj = NULL
    /\ g_arg = 0
    /\ g_old = [index |-> 0, shown |-> NoDisplay]
    /\ g_ret = NULL

GalleryGhost(op, obj, arg, ret) ==
    /\ g_op' = op
    /\ g_obj' = obj
    /\ g_arg' = arg
    /\ g_old' = [index |-> current_index, shown |-> g_shown]
    /\ g_ret' = ret

\* lv_image_gallery_create, called while no gallery container exists
lv_image_gallery_create ==
    /\ GalleryTurn
    /\ ~g_container
    /\ \E parent \in {NULL, OBJ}, images \in {NULL, "valid", "null_src"},
          count \in (-1)..MaxImages,
          malloc_ok \in BOOLEAN, obj_ok \in BOOLEAN,
          prev_ok \in BOOLEAN, next_ok \in BOOLEAN :
         IF parent = NULL \/ ~validate_images_array(images, count)
               \/ ~malloc_ok \/ ~obj_ok
         THEN \* nothing was created, or the data block was freed again
              /\ GalleryGhost("create", parent, count, NULL)
              /\ g_handle' = NULL
              /\ UNCHANGED <<g_container, g_user_data, g_prev_btn, g_next_btn,
                             image_count, current_index, g_shown, g_frees,
                             g_uaf>>
         ELSE /\ g_container' = TRUE
              /\ g_prev_btn' = prev_ok
              /\ g_next_btn' = next_ok
              /\ g_uaf' = FALSE
              /\ IF ~prev_ok \/ ~next_ok
                 THEN \* cleanup_gallery_data while the container keeps the pointer
                      /\ g_user_data' = "dangling"
                      /\ g_frees' = 1
                      /\ g_handle' = NULL
                      /\ image_count' = count
                      /\ current_index' = 0
                      /\ g_shown' = NoDisplay
                      /\ GalleryGhost("create", parent, count, NULL)
                 ELSE /\ g_user_data' = "live"
                      /\ g_frees' = 0
                      /\ g_handle' = OBJ
                      /\ image_count' = count
                      /\ current_index' = 0
                      /\ g_shown' = update_gallery_display(0, count, NoDisplay)
                      /\ GalleryGhost("create", parent, count, OBJ)
    /\ UNCHANGED <<pvars, cvars>>

\* the body shared by a navigation call and a button click
GalleryNavigate(op, gallery, new_index) ==
    LET data == get_gallery_data(gallery) IN
    /\ GalleryGhost(op, gallery, 0, NULL)
    /\ IF data = NULL
       THEN UNCHANGED <<current_index, g_shown, g_uaf, image_count>>
       ELSE IF data = "dangling"
       THEN \* use after free: the fields read and written are garbage
            /\ g_uaf' = TRUE
            /\ current_index' \in GarbageInts
            /\ g_shown' \in {g_shown, NoDisplay}
            /\ UNCHANGED image_count
       ELSE /\ current_index' = new_index
            /\ g_shown' = update_gallery_display(new_index, image_count, g_shown)
            /\ UNCHANGED <<g_uaf, image_count>>
    /\ UNCHANGED <<g_container, g_user_data, g_handle, g_prev_btn, g_next_btn,
                   g_frees>>

\* lv_image_gallery_next(gallery)
lv_image_gallery_next ==
    /\ GalleryTurn
    /\ g_container
    /\ \E gallery \in {NULL, PLAIN, g_handle} :
         GalleryNavigate("next", gallery,
                         NextIndex(current_index, image_count))
    /\ UNCHANGED <<pvars, cvars>>

\* lv_image_gallery_prev(gallery)
lv_image_gallery_prev ==
    /\ GalleryTurn
    /\ g_container
    /\ \E gallery \in {NULL, PLAIN, g_handle} :
         GalleryNavigate("prev", gallery,
                         PrevIndex(current_index, image_count))
    /\ UNCHANGED <<pvars, cvars>>

\* LV_EVENT_CLICKED on the Next button; its user data is the container
next_button_event_cb ==
    /\ GalleryTurn
    /\ g_container
    /\ g_next_btn
    /\ GalleryNavigate("click_next", OBJ, NextIndex(current_index, image_count))
    /\ UNCHANGED <<pvars, cvars>>

\* LV_EVENT_CLICKED on the Previous button; its user data is the container
prev_button_event_cb ==
    /\ GalleryTurn
    /\ g_container
    /\ g_prev_btn
    /\ GalleryNavigate("click_prev", OBJ, PrevIndex(current_index, image_count))
    /\ UNCHANGED <<pvars, cvars>>

\* lv_image_gallery_set_index(gallery, index)
lv_image_gallery_set_index ==
    /\ GalleryTurn
    /\ g_container
    /\ \E gallery \in {NULL, PLAIN, g_handle}, index \in (-1)..MaxImages :
         LET data == get_gallery_data(gallery) IN
         IF data = NULL \/ ~IndexInRange(index, image_count)
         THEN /\ GalleryGhost("set_index", gallery, index, FALSE)
              /\ UNCHANGED <<current_index, g_shown>>
         ELSE /\ GalleryGhost("set_index", gallery, index, TRUE)
              /\ current_index' = index
              /\ g_shown' = update_gallery_display(index, image_count, g_shown)
    /\ UNCHANGED <<g_container, g_user_data, g_handle, g_prev_btn, g_next_btn,
                   image_count, g_frees, g_uaf>>
    /\ UNCHANGED <<pvars, cvars>>

\* lv_image_gallery_get_index(gallery)
lv_image_gallery_get_index ==
    /\ GalleryTurn
    /\ g_container
    /\ \E gallery \in {NULL, PLAIN, g_handle} :
         LET data == get_gallery_data(gallery) IN
         GalleryGhost("get_index", gallery, 0,
                      IF data = NULL THEN -1 ELSE current_index)
    /\ UNCHANGED <<g_container, g_user_data, g_handle, g_prev_btn, g_next_btn,
                   image_count, current_index, g_shown, g_frees, g_uaf>>
    /\ UNCHANGED <<pvars, cvars>>

\* LV_EVENT_DELETE on the container: gallery_delete_event_cb
gallery_delete_event_cb ==
    /\ GalleryTurn
    /\ g_container
    /\ g_container' = FALSE
    /\ g_user_data' = NULL
    /\ g_handle' = NULL
    /\ g_prev_btn' = FALSE
    /\ g_next_btn' = FALSE
    /\ g_frees' = IF g_user_data # NULL THEN g_frees + 1 ELSE g_frees
    /\ GalleryGhost("delete", OBJ, 0, NULL)
    /\ UNCHANGED <<image_count, current_index, g_shown, g_uaf>>
    /\ UNCHANGED <<pvars, cvars>>

NextGallery ==
    \/ lv_image_gallery_create
    \/ lv_image_gallery_next
    \/ lv_image_gallery_prev
    \/ next_button_event_cb
    \/ prev_button_event_cb
    \/ lv_image_gallery_set_index
    \/ lv_image_gallery_get_index
    \/ gallery_delete_event_cb

(***************************************************************************)
(* lv_pull_refresh                                                         *)
(***************************************************************************)
\* the largest tick value the clock is advanced to before it wraps
MaxTick == 1500

\* a uint32_t is kept as two 16 bit halves, <<high, low>>
Half == 2^16

U32(hi, lo) == <<hi, lo>>

\* uint32_t addition, modulo 2^32
U32Add(a, b) ==
    LET lo == a[2] + b[2]
    IN <<(a[1] + b[1] + (lo \div Half)) % Half, lo % Half>>

\* uint32_t subtraction, modulo 2^32
U32Sub(a, b) ==
    LET lo == a[2] - b[2]
        borrow == IF lo < 0 THEN 1 ELSE 0
    IN <<(a[1] - b[1] - borrow) % Half, lo % Half>>

\* a uint32_t compared with a constant below 2^16
U32Geq(a, n) == a[1] > 0 \/ a[2] >= n

U32Gt(a, n) == a[1] > 0 \/ a[2] > n

\* #define PULL_DEFAULT_THRESHOLD 25
PULL_DEFAULT_THRESHOLD == 25

\* #define PULL_REFRESH_COOLDOWN 1000
PULL_REFRESH_COOLDOWN == 1000

\* lv_pull_state_t
PULL_STATE_IDLE == "IDLE"
PULL_STATE_PULLING == "PULLING"
PULL_STATE_READY == "READY"
PULL_STATE_REFRESHING == "REFRESHING"

\* values of lv_obj_get_scroll_y: pulled down to the threshold, pulled down
\* less than that, at the top, content scrolled down
ScrollYs == {-25, -10, 0, 5}

\* amounts of milliseconds by which the tick advances between two events;
\* the last one takes the 32 bit tick to 500 ms before its wraparound
TickSteps == {U32(0, 500), U32(0, 1000), U32(Half - 1, Half - 500)}

\* lv_pull_refresh_config_t: the fields the state machine reads
PullConfigs ==
    [pull_threshold : {PULL_DEFAULT_THRESHOLD}, show_indicator : BOOLEAN,
     refresh_cb : {NULL, "cb"}, state_cb : {NULL, "cb"}]

\* lv_pull_refresh_get_default_config
lv_pull_refresh_get_default_config ==
    [pull_threshold |-> PULL_DEFAULT_THRESHOLD, show_indicator |-> TRUE,
     refresh_cb |-> NULL, state_cb |-> NULL]

\* the config argument of lv_pull_refresh_create: a pointer that may be NULL
\* and the structure it points to
PullConfigArgs ==
    {c \in [ptr : {NULL, "cfg"}, cfg : PullConfigs] :
        c.ptr = NULL => c.cfg = lv_pull_refresh_get_default_config}

\* the data block as lv_pull_refresh_create initialises it
NewPullData(config) ==
    [config |-> config,
     indicator |-> "hidden",
     state |-> PULL_STATE_IDLE,
     current_pull_distance |-> 0,
     refresh_triggered |-> FALSE,
     last_refresh_time |-> U32(0, 0),
     enabled |-> TRUE]

NoHist == [in_progress |-> FALSE, completed |-> FALSE,
           cb_seen |-> FALSE, cb_tick |-> U32(0, 0)]

NoArg == [parent |-> NULL, config |-> NULL, malloc_ok |-> FALSE,
          obj_ok |-> FALSE, flag |-> FALSE]

\* one entry of p_calls
Call(name, distance, reached) ==
    [cb |-> name, pull_distance |-> distance, threshold_reached |-> reached]

\* get_pull_refresh_data: the two NULL checks
get_pull_refresh_data(container) ==
    IF container = NULL THEN NULL
    ELSE IF container = PLAIN \/ p_user_data = NULL THEN NULL
    ELSE p_user_data

\* update_indicator_display: the text the indicator label shows
update_indicator_display(d) ==
    IF ~d.config.show_indicator THEN d.indicator
    ELSE CASE d.state = PULL_STATE_IDLE -> "hidden"
           [] d.state = PULL_STATE_PULLING -> "pull_text"
           [] d.state = PULL_STATE_READY -> "release_text"
           [] d.state = PULL_STATE_REFRESHING -> "refreshing_text"

\* threshold_reached as set_pull_state computes it
ThresholdReached(new_state) ==
    new_state = PULL_STATE_READY \/ new_state = PULL_STATE_REFRESHING

\* set_pull_state on w = [data, calls]: the data block and the calls made so far
set_pull_state(w, new_state) ==
    IF w.data.state = new_state THEN w
    ELSE LET d1 == [w.data EXCEPT !.state = new_state]
             d2 == [d1 EXCEPT !.indicator = update_indicator_display(d1)]
         IN [data |-> d2,
             calls |-> IF d2.config.state_cb # NULL
                       THEN Append(w.calls,
                                   Call("state_cb", d2.current_pull_distance,
                                        ThresholdReached(new_state)))
                       ELSE w.calls]

\* a handler that runs although the widget is disabled
EventIgnored_EnabledNotRead(data, enabled) == data = NULL

\* if (!data || !data->enabled) return; at the head of scroll_event_cb
EventIgnored(data, enabled) == data = NULL \/ ~enabled

\* a threshold that has to be exceeded, not only reached
PullStateFor_Exceed(distance, threshold) ==
    IF distance <= 0 THEN PULL_STATE_IDLE
    ELSE IF distance <= threshold THEN PULL_STATE_PULLING
    ELSE PULL_STATE_READY

\* the state a SCROLL event selects for a pull distance
PullStateFor(distance, threshold) ==
    IF distance <= 0 THEN PULL_STATE_IDLE
    ELSE IF distance < threshold THEN PULL_STATE_PULLING
    ELSE PULL_STATE_READY

\* a cooldown test that demands more than the cooldown
CooldownElapsedStrict(now, last) ==
    U32Gt(U32Sub(now, last), PULL_REFRESH_COOLDOWN)

\* a cooldown test on signed values, which does not wrap with the tick
CooldownElapsed_Signed(now, last) ==
    CASE now[1] - last[1] >= 2 -> TRUE
      [] now[1] - last[1] = 1 ->
             Half + now[2] - last[2] >= PULL_REFRESH_COOLDOWN
      [] now[1] = last[1] -> now[2] - last[2] >= PULL_REFRESH_COOLDOWN
      [] OTHER -> FALSE

\* current_time - data->last_refresh_time >= PULL_REFRESH_COOLDOWN in uint32_t
CooldownElapsed(now, last) ==
    U32Geq(U32Sub(now, last), PULL_REFRESH_COOLDOWN)

\* a complete that clears the flags but leaves the pull state as it is
lv_pull_refresh_complete_body_KeepsState(w) ==
    [data |-> [w.data EXCEPT !.refresh_triggered = FALSE,
                             !.current_pull_distance = 0],
     calls |-> Append(w.calls, Call("lv_obj_scroll_to_y", 0, FALSE))]

\* the body of lv_pull_refresh_complete once the data block was found
lv_pull_refresh_complete_body(w) ==
    LET d1 == [w.data EXCEPT !.refresh_triggered = FALSE,
                             !.current_pull_distance = 0]
        w2 == set_pull_state([data |-> d1, calls |-> w.calls], PULL_STATE_IDLE)
    IN [data |-> w2.data,
        calls |-> Append(w2.calls, Call("lv_obj_scroll_to_y", 0, FALSE))]

\* lv_pull_refresh_is_refreshing(container)
lv_pull_refresh_is_refreshing(container) ==
    IF get_pull_refresh_data(container) = NULL THEN FALSE
    ELSE pd.state = PULL_STATE_REFRESHING

\* lv_pull_refresh_get_pull_distance(container)
lv_pull_refresh_get_pull_distance(container) ==
    IF get_pull_refresh_data(container) = NULL THEN 0
    ELSE pd.current_pull_distance

InitPull ==
    /\ p_container = FALSE
    /\ p_user_data = NULL
    /\ p_handle = NULL
    /\ p_blocks = 0
    /\ pd = NewPullData(lv_pull_refresh_get_default_config)
    /\ scroll_y = 0
    /\ tick = U32(0, 0)
    /\ p_hist = NoHist
    /\ p_op = "none"
    /\ p_obj = NULL
    /\ p_arg = NoArg
    /\ p_old = [data |-> NewPullData(lv_pull_refresh_get_default_config),
                hist |-> NoHist]
    /\ p_calls = <<>>
    /\ p_ret = NULL

PullGhost(op, obj, arg, ret) ==
    /\ p_op' = op
    /\ p_obj' = obj
    /\ p_arg' = arg
    /\ p_old' = [data |-> pd, hist |-> p_hist]
    /\ p_ret' = ret

\* argument checks that do not look at refresh_cb
CreateArgsValid_NoCallbackCheck(parent, config) ==
    /\ parent # NULL
    /\ config.ptr # NULL

\* the argument checks at the head of lv_pull_refresh_create
CreateArgsValid(parent, config) ==
    /\ parent # NULL
    /\ config.ptr # NULL
    /\ config.cfg.refresh_cb # NULL

\* lv_pull_refresh_create, called while no pull-refresh container exists
lv_pull_refresh_create ==
    /\ PullTurn
    /\ ~p_container
    /\ \E parent \in {NULL, OBJ}, config \in PullConfigArgs,
          malloc_ok \in BOOLEAN, obj_ok \in BOOLEAN :
         LET arg == [parent |-> parent, config |-> config.ptr,
                     malloc_ok |-> malloc_ok, obj_ok |-> obj_ok,
                     flag |-> config.cfg.refresh_cb # NULL]
         IN
         IF ~CreateArgsValid(parent, config) \/ ~malloc_ok \/ ~obj_ok
         THEN \* returns NULL; a block allocated before the failure is freed
              /\ PullGhost("create", NULL, arg, NULL)
              /\ p_handle' = NULL
              /\ UNCHANGED <<p_container, p_user_data, p_blocks, pd>>
         ELSE /\ PullGhost("create", NULL, arg, OBJ)
              /\ p_handle' = OBJ
              /\ p_container' = TRUE
              /\ p_user_data' = "live"
              /\ p_blocks' = p_blocks + 1
              /\ pd' = NewPullData(config.cfg)
    /\ p_hist' = NoHist
    /\ p_calls' = <<>>
    /\ scroll_y' = 0
    /\ UNCHANGED tick
    /\ UNCHANGED <<gvars, cvars>>

\* scroll_event_cb for LV_EVENT_SCROLL: LVGL has moved the content to y
scroll_event_cb_SCROLL ==
    /\ PullTurn
    /\ p_container
    /\ \E y \in ScrollYs :
         /\ scroll_y' = y
         /\ PullGhost("scroll", OBJ, NoArg, NULL)
         /\ IF EventIgnored(get_pull_refresh_data(OBJ), pd.enabled)
            THEN UNCHANGED pd /\ p_calls' = <<>>
            ELSE LET d1 == [pd EXCEPT !.current_pull_distance = 0 - y] IN
                 IF d1.state = PULL_STATE_REFRESHING
                 THEN pd' = d1 /\ p_calls' = <<>>
                 ELSE LET w == set_pull_state(
                                 [data |-> d1, calls |-> <<>>],
                                 PullStateFor(d1.current_pull_distance,
                                              d1.config.pull_threshold))
                      IN pd' = w.data /\ p_calls' = w.calls
    /\ UNCHANGED <<p_container, p_user_data, p_handle, p_blocks, tick, p_hist>>
    /\ UNCHANGED <<gvars, cvars>>

\* scroll_event_cb for LV_EVENT_SCROLL_END
scroll_event_cb_SCROLL_END ==
    /\ PullTurn
    /\ p_container
    /\ PullGhost("scroll_end", OBJ, NoArg, NULL)
    /\ IF EventIgnored(get_pull_refresh_data(OBJ), pd.enabled)
       THEN UNCHANGED <<pd, p_hist>> /\ p_calls' = <<>>
       ELSE IF /\ pd.state = PULL_STATE_READY
               /\ ~pd.refresh_triggered
               /\ CooldownElapsed(tick, pd.last_refresh_time)
       THEN \* the refresh is triggered
            LET d1 == [pd EXCEPT !.refresh_triggered = TRUE,
                                 !.last_refresh_time = tick]
                w == set_pull_state([data |-> d1, calls |-> <<>>],
                                    PULL_STATE_REFRESHING)
            IN /\ pd' = w.data
               /\ p_calls' = IF pd.config.refresh_cb # NULL
                             THEN Append(w.calls, Call("refresh_cb", 0, FALSE))
                             ELSE w.calls
               /\ p_hist' = [in_progress |-> TRUE, completed |-> FALSE,
                             cb_seen |-> pd.config.refresh_cb # NULL
                                         \/ p_hist.cb_seen,
                             cb_tick |-> IF pd.config.refresh_cb # NULL
                                         THEN tick ELSE p_hist.cb_tick]
       ELSE IF pd.state # PULL_STATE_REFRESHING
       THEN \* scroll back to the top and return to idle
            LET w == set_pull_state(
                       [data |-> pd,
                        calls |-> <<Call("lv_obj_scroll_to_y", 0, FALSE)>>],
                       PULL_STATE_IDLE)
            IN /\ pd' = w.data
               /\ p_calls' = w.calls
               /\ p_hist' = [p_hist EXCEPT !.completed = FALSE]
       ELSE UNCHANGED <<pd, p_hist>> /\ p_calls' = <<>>
    /\ UNCHANGED <<p_container, p_user_data, p_handle, p_blocks, scroll_y, tick>>
    /\ UNCHANGED <<gvars, cvars>>

\* lv_pull_refresh_complete(container)
lv_pull_refresh_complete ==
    /\ PullTurn
    /\ p_container
    /\ \E container \in {NULL, PLAIN, p_handle} :
         /\ PullGhost("complete", container, NoArg, NULL)
         /\ IF get_pull_refresh_data(container) = NULL
            THEN UNCHANGED <<pd, p_hist>> /\ p_calls' = <<>>
            ELSE LET w == lv_pull_refresh_complete_body(
                             [data |-> pd, calls |-> <<>>])
                 IN /\ pd' = w.data
                    /\ p_calls' = w.calls
                    /\ p_hist' = [p_hist EXCEPT
                                    !.in_progress = FALSE,
                                    !.completed = p_hist.in_progress]
    /\ UNCHANGED <<p_container, p_user_data, p_handle, p_blocks, scroll_y, tick>>
    /\ UNCHANGED <<gvars, cvars>>

\* a set_refreshing whose false branch returns to idle by itself and forgets
\* the pull distance
lv_pull_refresh_set_refreshing_body_OwnReset(w, refreshing) ==
    IF refreshing
    THEN set_pull_state([data |-> [w.data EXCEPT !.refresh_triggered = TRUE],
                         calls |-> w.calls],
                        PULL_STATE_REFRESHING)
    ELSE LET w2 == set_pull_state(
                     [data |-> [w.data EXCEPT !.refresh_triggered = FALSE],
                      calls |-> w.calls],
                     PULL_STATE_IDLE)
         IN [data |-> w2.data,
             calls |-> Append(w2.calls, Call("lv_obj_scroll_to_y", 0, FALSE))]

\* what lv_pull_refresh_set_refreshing does to the data block
lv_pull_refresh_set_refreshing_body(w, refreshing) ==
    IF refreshing
    THEN set_pull_state([data |-> [w.data EXCEPT !.refresh_triggered = TRUE],
                         calls |-> w.calls],
                        PULL_STATE_REFRESHING)
    ELSE lv_pull_refresh_complete_body(w)

\* lv_pull_refresh_set_refreshing(container, refreshing)
lv_pull_refresh_set_refreshing ==
    /\ PullTurn
    /\ p_container
    /\ \E container \in {NULL, PLAIN, p_handle}, refreshing \in BOOLEAN :
         /\ PullGhost("set_refreshing", container,
                      [NoArg EXCEPT !.flag = refreshing], NULL)
         /\ IF get_pull_refresh_data(container) = NULL
            THEN UNCHANGED <<pd, p_hist>> /\ p_calls' = <<>>
            ELSE LET w == lv_pull_refresh_set_refreshing_body(
                             [data |-> pd, calls |-> <<>>], refreshing)
                 IN /\ pd' = w.data
                    /\ p_calls' = w.calls
                    /\ p_hist' = [p_hist EXCEPT
                                    !.in_progress = refreshing,
                                    !.completed = FALSE]
    /\ UNCHANGED <<p_container, p_user_data, p_handle, p_blocks, scroll_y, tick>>
    /\ UNCHANGED <<gvars, cvars>>

\* lv_pull_refresh_set_enabled(container, enabled)
lv_pull_refresh_set_enabled ==
    /\ PullTurn
    /\ p_container
    /\ \E container \in {NULL, PLAIN, p_handle}, enabled \in BOOLEAN :
         /\ PullGhost("set_enabled", container,
                      [NoArg EXCEPT !.flag = enabled], NULL)
         /\ IF get_pull_refresh_data(container) = NULL
            THEN UNCHANGED <<pd, p_hist>> /\ p_calls' = <<>>
            ELSE LET d1 == [pd EXCEPT !.enabled = enabled] IN
                 IF ~enabled /\ d1.state # PULL_STATE_IDLE
                 THEN LET w == lv_pull_refresh_complete_body(
                                  [data |-> d1, calls |-> <<>>])
                      IN /\ pd' = w.data
                         /\ p_calls' = w.calls
                         /\ p_hist' = [p_hist EXCEPT
                                         !.in_progress = FALSE,
                                         !.completed = FALSE]
                 ELSE /\ pd' = d1
                      /\ p_calls' = <<>>
                      /\ p_hist' = [p_hist EXCEPT !.completed = FALSE]
    /\ UNCHANGED <<p_container, p_user_data, p_handle, p_blocks, scroll_y, tick>>
    /\ UNCHANGED <<gvars, cvars>>

\* lv_pull_refresh_is_refreshing and lv_pull_refresh_get_pull_distance
PullQuery ==
    /\ PullTurn
    /\ p_container
    /\ \E container \in {NULL, PLAIN, p_handle} :
         \/ PullGhost("is_refreshing", container, NoArg,
                      IF lv_pull_refresh_is_refreshing(container)
                      THEN "true" ELSE "false")
         \/ PullGhost("get_pull_distance", container, NoArg,
                      IF lv_pull_refresh_get_pull_distance(container) = 0
                      THEN "zero" ELSE "nonzero")
    /\ p_calls' = <<>>
    /\ UNCHANGED <<p_container, p_user_data, p_handle, p_blocks, pd, scroll_y,
                   tick, p_hist>>
    /\ UNCHANGED <<gvars, cvars>>

\* LV_EVENT_DELETE on the container: pull_refresh_delete_event_cb frees the
\* data block; the fields of the model are cleared with it
pull_refresh_delete_event_cb ==
    /\ PullTurn
    /\ p_container
    /\ PullGhost("delete", OBJ, NoArg, NULL)
    /\ p_container' = FALSE
    /\ p_user_data' = NULL
    /\ p_handle' = NULL
    /\ p_blocks' = IF p_user_data # NULL THEN p_blocks - 1 ELSE p_blocks
    /\ p_hist' = NoHist
    /\ p_calls' = <<>>
    /\ pd' = NewPullData(lv_pull_refresh_get_default_config)
    /\ scroll_y' = 0
    /\ UNCHANGED tick
    /\ UNCHANGED <<gvars, cvars>>

\* the millisecond tick of lv_tick_get advances; it wraps at 2^32
TickAdvance ==
    /\ PullTurn
    /\ \E step \in TickSteps :
         LET t == U32Add(tick, step) IN
         /\ \/ t[1] = 0 /\ t[2] <= MaxTick
            \/ t[1] = Half - 1 /\ t[2] >= Half - 500
         /\ tick' = t
    /\ PullGhost("tick", NULL, NoArg, NULL)
    /\ p_calls' = <<>>
    /\ UNCHANGED <<p_container, p_user_data, p_handle, p_blocks, pd, scroll_y,
                   p_hist>>
    /\ UNCHANGED <<gvars, cvars>>

NextPull ==
    \/ lv_pull_refresh_create
    \/ scroll_event_cb_SCROLL
    \/ scroll_event_cb_SCROLL_END
    \/ lv_pull_refresh_complete
    \/ lv_pull_refresh_set_refreshing
    \/ lv_pull_refresh_set_enabled
    \/ PullQuery
    \/ pull_refresh_delete_event_cb
    \/ TickAdvance

(***************************************************************************)
(* lv_expandable_card                                                      *)
(***************************************************************************)
\* values of config.max_content_height handed to lv_expandable_card_create
CardHeights == {0, 120}

\* the fields of lv_card_config_t that the widget's behaviour depends on
CardConfigs ==
    [on_expand : {NULL, "on_expand"}, on_collapse : {NULL, "on_collapse"},
     max_content_height : CardHeights]

lv_expandable_card_get_default_config ==
    [on_expand |-> NULL, on_collapse |-> NULL, max_content_height |-> 0]

\* the config argument of lv_expandable_card_create: a NULL pointer or a
\* pointer to a configuration
CardConfigArgs ==
    {[ptr |-> NULL, cfg |-> lv_expandable_card_get_default_config]}
      \cup {[ptr |-> OBJ, cfg |-> c] : c \in CardConfigs}

\* the card_data argument: a NULL pointer or a pointer to title and content
CardDataArgs ==
    {[ptr |-> NULL, title |-> NULL, content |-> NULL]}
      \cup [ptr : {OBJ}, title : {NULL, "title"}, content : {NULL, "content"}]

\* the block as lv_expandable_card_create fills it before the display update
NewCardData(cfg) ==
    [config |-> cfg, expanded |-> FALSE, truncated_text |-> FALSE,
     content |-> "none", height |-> "none", scrollable |-> FALSE,
     btn_text |-> "none"]

NoCardOp == [op |-> "none", obj |-> NULL, arg |-> FALSE, was |-> FALSE]

get_card_data(card) ==
    IF card = NULL THEN NULL
    ELSE IF card = PLAIN THEN NULL
    ELSE IF c_user_data = NULL THEN NULL
    ELSE OBJ

validate_card_data(card_data) ==
    /\ card_data.ptr # NULL
    /\ card_data.title # NULL
    /\ card_data.content # NULL

\* update_card_display; alloc tells whether lv_malloc in
\* create_truncated_text succeeds should the truncated text be needed
update_card_display(data, alloc) ==
    IF data.expanded
    THEN [data EXCEPT
            !.content = "full",
            !.height = IF data.config.max_content_height > 0
                       THEN "max" ELSE "content",
            !.scrollable = data.config.max_content_height > 0,
            !.btn_text = "collapse_text"]
    ELSE LET cached == data.truncated_text \/ alloc IN
         [data EXCEPT
            !.truncated_text = cached,
            !.content = IF cached THEN "truncated" ELSE "full",
            !.height = "content",
            !.scrollable = FALSE,
            !.btn_text = "expand_text"]

\* a state change that always expands
ExpandedToggled_AlwaysExpands(data, alloc) ==
    update_card_display([data EXCEPT !.expanded = TRUE], alloc)

\* data->expanded = !data->expanded; update_card_display(data);
ExpandedToggled(data, alloc) ==
    update_card_display([data EXCEPT !.expanded = ~data.expanded], alloc)

\* the callbacks expand_button_event_cb makes once the state is toggled
ExpandCallbacks(data) ==
    IF data.expanded /\ data.config.on_expand # NULL
    THEN <<"on_expand">>
    ELSE IF ~data.expanded /\ data.config.on_collapse # NULL
    THEN <<"on_collapse">>
    ELSE <<>>

InitCard ==
    /\ c_container = FALSE
    /\ c_user_data = NULL
    /\ c_handle = NULL
    /\ c_blocks = 0
    /\ cd = NewCardData(lv_expandable_card_get_default_config)
    /\ c_op = "none"
    /\ c_obj = NULL
    /\ c_arg = FALSE
    /\ c_old = NewCardData(lv_expandable_card_get_default_config)
    /\ c_calls = <<>>
    /\ c_ret = NULL
    /\ c_prev = NoCardOp

CardGhost(op, obj, arg, ret) ==
    /\ c_op' = op
    /\ c_obj' = obj
    /\ c_arg' = arg
    /\ c_old' = cd
    /\ c_ret' = ret
    /\ c_prev' = [op |-> c_op, obj |-> c_obj, arg |-> c_arg,
                  was |-> c_old.expanded]

lv_expandable_card_create ==
    /\ CardTurn
    /\ ~c_container
    /\ \E parent \in {NULL, OBJ}, card_data \in CardDataArgs,
          config \in CardConfigArgs,
          malloc_ok \in BOOLEAN, container_ok \in BOOLEAN, alloc \in BOOLEAN :
         LET cfg == IF config.ptr # NULL THEN config.cfg
                    ELSE lv_expandable_card_get_default_config
         IN
         IF \/ parent = NULL
            \/ ~validate_card_data(card_data)
            \/ ~malloc_ok
            \/ ~container_ok
         THEN /\ c_handle' = NULL
              /\ UNCHANGED <<c_container, c_user_data, c_blocks, cd>>
              /\ CardGhost("create", NULL, FALSE, NULL)
         ELSE /\ c_container' = TRUE
              /\ c_user_data' = "live"
              /\ c_blocks' = c_blocks + 1
              /\ cd' = update_card_display(NewCardData(cfg), alloc)
              /\ c_handle' = OBJ
              /\ CardGhost("create", NULL, FALSE, OBJ)
    /\ c_calls' = <<>>
    /\ UNCHANGED <<gvars, pvars>>

\* LV_EVENT_CLICKED on the expand button of the card
expand_button_event_cb ==
    /\ CardTurn
    /\ c_container
    /\ \E alloc \in BOOLEAN :
         IF get_card_data(OBJ) = NULL
         THEN /\ UNCHANGED cd
              /\ c_calls' = <<>>
         ELSE /\ cd' = ExpandedToggled(cd, alloc)
              /\ c_calls' = ExpandCallbacks(cd')
    /\ CardGhost("click", OBJ, FALSE, NULL)
    /\ UNCHANGED <<c_container, c_user_data, c_handle, c_blocks>>
    /\ UNCHANGED <<gvars, pvars>>

lv_expandable_card_set_expanded ==
    /\ CardTurn
    /\ \E card \in {NULL, PLAIN, c_handle}, expanded \in BOOLEAN,
          alloc \in BOOLEAN :
         IF get_card_data(card) = NULL
         THEN /\ UNCHANGED cd
              /\ CardGhost("set_expanded", card, expanded, FALSE)
         ELSE /\ cd' = update_card_display([cd EXCEPT !.expanded = expanded],
                                           alloc)
              /\ CardGhost("set_expanded", card, expanded, TRUE)
    /\ c_calls' = <<>>
    /\ UNCHANGED <<c_container, c_user_data, c_handle, c_blocks>>
    /\ UNCHANGED <<gvars, pvars>>

lv_expandable_card_is_expanded ==
    /\ CardTurn
    /\ \E card \in {NULL, PLAIN, c_handle} :
         CardGhost("is_expanded", card, FALSE,
                   IF get_card_data(card) = NULL THEN FALSE ELSE cd.expanded)
    /\ c_calls' = <<>>
    /\ UNCHANGED <<c_container, c_user_data, c_handle, c_blocks, cd>>
    /\ UNCHANGED <<gvars, pvars>>

lv_expandable_card_toggle ==
    /\ CardTurn
    /\ \E card \in {NULL, PLAIN, c_handle}, alloc \in BOOLEAN :
         /\ IF get_card_data(card) = NULL
            THEN UNCHANGED cd
            ELSE cd' = ExpandedToggled(cd, alloc)
         /\ CardGhost("toggle", card, FALSE, NULL)
    /\ c_calls' = <<>>
    /\ UNCHANGED <<c_container, c_user_data, c_handle, c_blocks>>
    /\ UNCHANGED <<gvars, pvars>>

\* LV_EVENT_DELETE on the card container: cleanup_card_data frees the
\* truncated text and the block
card_delete_event_cb ==
    /\ CardTurn
    /\ c_container
    /\ c_container' = FALSE
    /\ c_blocks' = IF c_user_data # NULL THEN c_blocks - 1 ELSE c_blocks
    /\ c_user_data' = NULL
    /\ c_handle' = NULL
    /\ cd' = NewCardData(lv_expandable_card_get_default_config)
    /\ c_calls' = <<>>
    /\ CardGhost("delete", OBJ, FALSE, NULL)
    /\ UNCHANGED <<gvars, pvars>>

NextCard ==
    \/ lv_expandable_card_create
    \/ expand_button_event_cb
    \/ lv_expandable_card_set_expanded
    \/ lv_expandable_card_is_expanded
    \/ lv_expandable_card_toggle
    \/ card_delete_event_cb

vars == <<gvars, pvars, cvars>>

Init == InitGallery /\ InitPull /\ InitCard

\* the gallery alone
SpecGallery == Init /\ [][NextGallery]_vars

\* the pull-to-refresh container alone
SpecPull == Init /\ [][NextPull]_vars

\* the expandable card alone
SpecCard == Init /\ [][NextCard]_vars

\* any one of the three widgets
NextWidgets ==
    \/ NextGallery
    \/ NextPull
    \/ NextCard

SpecWidgets == Init /\ [][NextWidgets]_vars

(***************************************************************************)
(* Properties of lv_image_gallery                                          *)
(***************************************************************************)
\* the last operation acted on a properly created gallery
OnLiveGallery == g_obj = OBJ /\ g_user_data = "live" /\ image_count >= 1

\* C1: lv_image_gallery_next and a click on the Next button move the index
\* from i to i+1 when i < n-1 and to 0 when i = n-1.
C1_NextWraps ==
    (g_op \in {"next", "click_next"} /\ OnLiveGallery) =>
        current_index = IF g_old.index < image_count - 1
                        THEN g_old.index + 1 ELSE 0

\* a Next click on the last of several images has wrapped to the first
C1_Witness ==
    /\ g_op = "click_next"
    /\ OnLiveGallery
    /\ image_count = MaxImages
    /\ g_old.index = image_count - 1
    /\ current_index = 0

\* C2: lv_image_gallery_prev and a click on the Previous button move the
\* index from i to i-1 when i > 0 and to n-1 when i = 0.
C2_PrevWraps ==
    (g_op \in {"prev", "click_prev"} /\ OnLiveGallery) =>
        current_index = IF g_old.index > 0
                        THEN g_old.index - 1 ELSE image_count - 1

\* a prev call on the first of several images has wrapped to the last
C2_Witness ==
    /\ g_op = "prev"
    /\ OnLiveGallery
    /\ image_count = MaxImages
    /\ g_old.index = 0
    /\ current_index = image_count - 1

\* C3: lv_image_gallery_set_index(gallery, k) returns true and makes k the
\* index that lv_image_gallery_get_index reads when 0 <= k < image_count;
\* otherwise it returns false and leaves index, image and counter unchanged.
C3_SetIndex ==
    (g_op = "set_index" /\ OnLiveGallery) =>
        IF 0 <= g_arg /\ g_arg < image_count
        THEN /\ g_ret = TRUE
             /\ current_index = g_arg
             /\ g_shown.img = g_arg
        ELSE /\ g_ret = FALSE
             /\ current_index = g_old.index
             /\ g_shown = g_old.shown

\* set_index(image_count) was rejected on a gallery that shows another image
C3_Witness ==
    /\ g_op = "set_index"
    /\ OnLiveGallery
    /\ g_arg = image_count
    /\ g_ret = FALSE
    /\ current_index = 1
    /\ g_shown.img = 1


(***************************************************************************)
(* Properties of lv_pull_refresh                                           *)
(***************************************************************************)
\* the last operation acted on the data block of a created container
OnLivePull == p_obj = OBJ /\ p_container /\ p_user_data = "live"

\* the callbacks of one kind among the calls of the last operation
CallsOf(name) == {i \in 1..Len(p_calls) : p_calls[i].cb = name}

\* lv_pull_refresh_complete leaves an idle widget
CompleteResets ==
    (p_op = "complete" /\ OnLivePull) =>
        /\ ~lv_pull_refresh_is_refreshing(p_handle)
        /\ lv_pull_refresh_get_pull_distance(p_handle) = 0
        /\ pd.state = PULL_STATE_IDLE
        /\ ~pd.refresh_triggered

\* a scroll end that closes the first pull after a completed refresh
ScrollEndAfterComplete ==
    /\ p_op = "scroll_end"
    /\ OnLivePull
    /\ p_old.hist.completed
    /\ p_old.data.state = PULL_STATE_READY

\* C4 as stated: after a triggered refresh, lv_pull_refresh_complete resets
\* the widget, and the next pull past the threshold followed by a scroll end
\* invokes refresh_cb again.
C4_AsStated ==
    /\ CompleteResets
    /\ ScrollEndAfterComplete => CallsOf("refresh_cb") # {}

\* C4 amended: lv_pull_refresh_complete resets the widget, and the next pull
\* past the threshold followed by a scroll end invokes refresh_cb again exactly
\* when at least 1000 ms of 32 bit tick time have passed since the last refresh
\* that a scroll end triggered; otherwise the widget returns to idle.
C4_CompleteAllowsRefresh ==
    /\ CompleteResets
    /\ ScrollEndAfterComplete =>
         IF U32Geq(U32Sub(tick, p_old.data.last_refresh_time), 1000)
         THEN /\ Cardinality(CallsOf("refresh_cb")) = 1
              /\ pd.state = PULL_STATE_REFRESHING
         ELSE /\ CallsOf("refresh_cb") = {}
              /\ pd.state = PULL_STATE_IDLE

\* the first pull after a completed refresh was released exactly 1000 ms
\* after the previous trigger and has invoked refresh_cb again
C4_Witness ==
    /\ ScrollEndAfterComplete
    /\ U32Sub(tick, p_old.data.last_refresh_time) = U32(0, 1000)
    /\ p_old.data.last_refresh_time # U32(0, 0)
    /\ Cardinality(CallsOf("refresh_cb")) = 1
    /\ pd.state = PULL_STATE_REFRESHING

\* C5: lv_pull_refresh_is_refreshing is true exactly from the moment a refresh
\* is triggered (a release past the threshold or set_refreshing(true)) until
\* lv_pull_refresh_complete runs, and false in every other state.
C5_IsRefreshingExact ==
    p_container =>
        (lv_pull_refresh_is_refreshing(p_handle) <=> p_hist.in_progress)

\* a refresh that a release triggered is still in progress after a SCROLL
\* event has taken the content back to the top
C5_Witness ==
    /\ p_op = "scroll"
    /\ OnLivePull
    /\ p_hist.in_progress
    /\ lv_pull_refresh_is_refreshing(p_handle)
    /\ pd.last_refresh_time # U32(0, 0)
    /\ pd.current_pull_distance = 0

\* C6: lv_pull_refresh_create returns NULL, creates no container and leaves no
\* data block behind when parent is NULL or config->refresh_cb is NULL.
C6_CreateRejects ==
    (p_op = "create" /\ (p_arg.parent = NULL
                           \/ (p_arg.config # NULL /\ ~p_arg.flag))) =>
        /\ p_ret = NULL
        /\ p_handle = NULL
        /\ ~p_container
        /\ p_user_data = NULL
        /\ p_blocks = 0

\* a create with a valid parent, memory available and a config without
\* refresh_cb was rejected
C6_Witness ==
    /\ p_op = "create"
    /\ p_arg.parent = OBJ
    /\ p_arg.config # NULL
    /\ ~p_arg.flag
    /\ p_arg.malloc_ok
    /\ p_arg.obj_ok
    /\ p_ret = NULL
    /\ ~p_container
    /\ p_blocks = 0

\* C7: lv_pull_refresh_create with config = NULL and a valid parent returns a
\* container that uses the values of lv_pull_refresh_get_default_config.
C7_NullConfigUsesDefaults ==
    (/\ p_op = "create"
     /\ p_arg.parent = OBJ
     /\ p_arg.config = NULL
     /\ p_arg.malloc_ok
     /\ p_arg.obj_ok) =>
        /\ p_ret = OBJ
        /\ p_container
        /\ pd.config = lv_pull_refresh_get_default_config

\* C8: lv_pull_refresh_get_pull_distance is never negative and reads 0
\* whenever the widget is idle.
C8_PullDistance ==
    (p_container /\ p_user_data = "live") =>
        /\ lv_pull_refresh_get_pull_distance(p_handle) >= 0
        /\ pd.state = PULL_STATE_IDLE =>
             lv_pull_refresh_get_pull_distance(p_handle) = 0

\* C9: with a state_cb configured, an operation invokes state_cb once when it
\* changes the pull state and not at all when it does not, and every
\* invocation passes threshold_reached = (pull_distance >= pull_threshold).
C9_StateCallback ==
    (OnLivePull /\ pd.config.state_cb # NULL
       /\ p_op \in {"scroll", "scroll_end", "complete", "set_refreshing",
                    "set_enabled"}) =>
        /\ Cardinality(CallsOf("state_cb")) =
             IF pd.state # p_old.data.state THEN 1 ELSE 0
        /\ \A i \in CallsOf("state_cb") :
             p_calls[i].threshold_reached <=>
                 (p_calls[i].pull_distance >= pd.config.pull_threshold)

\* C10: set_refreshing(c, true) makes lv_pull_refresh_is_refreshing(c) true
\* from any prior state; set_refreshing(c, false) leaves the widget as
\* lv_pull_refresh_complete does: idle, pull distance 0, no trigger pending,
\* one state_cb call if the state changed, a scroll back to the top, and
\* enabled, cooldown stamp and configuration untouched.
C10_SetRefreshing ==
    (p_op = "set_refreshing" /\ OnLivePull) =>
        IF p_arg.flag
        THEN /\ lv_pull_refresh_is_refreshing(p_handle)
             /\ pd.refresh_triggered
        ELSE /\ pd = [p_old.data EXCEPT
                        !.state = PULL_STATE_IDLE,
                        !.current_pull_distance = 0,
                        !.refresh_triggered = FALSE,
                        !.indicator = IF p_old.data.config.show_indicator
                                         /\ p_old.data.state # PULL_STATE_IDLE
                                      THEN "hidden" ELSE @]
             /\ p_calls =
                  (IF p_old.data.state # PULL_STATE_IDLE
                      /\ pd.config.state_cb # NULL
                   THEN <<Call("state_cb", 0, FALSE)>> ELSE <<>>)
                  \o <<Call("lv_obj_scroll_to_y", 0, FALSE)>>

\* set_refreshing(c, false) has stopped a refresh that was in progress
C10_Witness ==
    /\ p_op = "set_refreshing"
    /\ OnLivePull
    /\ ~p_arg.flag
    /\ p_old.data.state = PULL_STATE_REFRESHING
    /\ pd.state = PULL_STATE_IDLE
    /\ ~lv_pull_refresh_is_refreshing(p_handle)

\* C11: while the widget is disabled, SCROLL and SCROLL_END events change
\* neither the pull state nor the pull distance and invoke neither refresh_cb
\* nor state_cb; set_enabled(c, false) on a widget that is not idle resets it
\* as lv_pull_refresh_complete does (idle, distance 0, no trigger pending).
C11_DisabledIgnoresScroll ==
    /\ (p_op \in {"scroll", "scroll_end"} /\ OnLivePull
          /\ ~p_old.data.enabled) =>
         /\ pd = p_old.data
         /\ p_calls = <<>>
         /\ p_hist = p_old.hist
    /\ (p_op = "set_enabled" /\ OnLivePull /\ ~p_arg.flag) =>
         /\ ~pd.enabled
         /\ p_old.data.state # PULL_STATE_IDLE =>
              /\ pd.state = PULL_STATE_IDLE
              /\ pd.current_pull_distance = 0
              /\ ~pd.refresh_triggered
              /\ CallsOf("refresh_cb") = {}

\* a pull down to the threshold arrived at a disabled widget and left it idle
C11_Witness ==
    /\ p_op = "scroll"
    /\ OnLivePull
    /\ ~p_old.data.enabled
    /\ scroll_y = -25
    /\ pd.state = PULL_STATE_IDLE
    /\ pd.current_pull_distance = 0
    /\ p_calls = <<>>

\* C15: a SCROLL event on an enabled widget that is not refreshing, with
\* d = -scroll_y, leaves the state IDLE if d <= 0, PULLING if
\* 0 < d < pull_threshold and READY if d >= pull_threshold.
C15_ScrollSelectsState ==
    (p_op = "scroll" /\ OnLivePull /\ p_old.data.enabled
       /\ p_old.data.state # PULL_STATE_REFRESHING) =>
        /\ pd.current_pull_distance = 0 - scroll_y
        /\ 0 - scroll_y <= 0 => pd.state = PULL_STATE_IDLE
        /\ (0 < 0 - scroll_y /\ 0 - scroll_y < pd.config.pull_threshold) =>
             pd.state = PULL_STATE_PULLING
        /\ 0 - scroll_y >= pd.config.pull_threshold =>
             pd.state = PULL_STATE_READY

\* a pull that was below the threshold has reached it exactly and is READY
C15_Witness ==
    /\ p_op = "scroll"
    /\ OnLivePull
    /\ p_old.data.enabled
    /\ p_old.data.state = PULL_STATE_PULLING
    /\ 0 - scroll_y = pd.config.pull_threshold
    /\ pd.state = PULL_STATE_READY

\* the last operation was a SCROLL_END delivered to an enabled widget
EnabledScrollEnd ==
    p_op = "scroll_end" /\ OnLivePull /\ p_old.data.enabled

\* C16: a SCROLL_END on an enabled widget triggers a refresh (state
\* REFRESHING, refresh_cb invoked exactly once) if the state is READY and the
\* 32 bit unsigned difference between the tick and the last scroll-triggered
\* refresh (initially 0) is at least 1000; otherwise, unless the widget is
\* already REFRESHING, refresh_cb is not invoked and the state becomes IDLE.
\* Two refresh_cb invocations by scroll ends are at least 1000 ms apart.
C16_ScrollEndCooldown ==
    /\ EnabledScrollEnd =>
         IF /\ p_old.data.state = PULL_STATE_READY
            /\ U32Geq(U32Sub(tick, p_old.data.last_refresh_time), 1000)
         THEN /\ pd.state = PULL_STATE_REFRESHING
              /\ Cardinality(CallsOf("refresh_cb")) = 1
         ELSE p_old.data.state # PULL_STATE_REFRESHING =>
                /\ CallsOf("refresh_cb") = {}
                /\ pd.state = PULL_STATE_IDLE
    /\ (EnabledScrollEnd /\ CallsOf("refresh_cb") # {}
          /\ p_old.hist.cb_seen) =>
         U32Geq(U32Sub(tick, p_old.hist.cb_tick), 1000)

\* a second refresh was triggered exactly 1000 ms after the first, with the
\* 32 bit tick having wrapped around in between
C16_Witness ==
    /\ EnabledScrollEnd
    /\ CallsOf("refresh_cb") # {}
    /\ p_old.hist.cb_seen
    /\ p_old.hist.cb_tick = U32(Half - 1, Half - 500)
    /\ tick = U32(0, 500)
    /\ pd.state = PULL_STATE_REFRESHING

\* the last operation was called on the live card
OnLiveCard ==
    c_obj = OBJ /\ c_user_data = "live"

\* C12: lv_expandable_card_is_expanded reflects the most recent operation:
\* false after create, x after set_expanded(card, x) (which returns true),
\* the negation of the previous value after toggle and after a click on the
\* expand button; two toggles restore the state and repeating a set_expanded
\* changes nothing.
C12_IsExpandedReflects ==
    /\ (c_op = "create" /\ c_ret # NULL) => ~cd.expanded
    /\ (c_op = "set_expanded" /\ OnLiveCard) =>
         /\ cd.expanded = c_arg
         /\ c_ret = TRUE
    /\ (c_op \in {"toggle", "click"} /\ OnLiveCard) =>
         cd.expanded = ~c_old.expanded
    /\ (c_op = "is_expanded" /\ OnLiveCard) =>
         /\ c_ret = cd.expanded
         /\ cd = c_old
    /\ (c_op = "toggle" /\ OnLiveCard /\ c_prev.op = "toggle"
          /\ c_prev.obj = OBJ) =>
         cd.expanded = c_prev.was
    /\ (c_op = "set_expanded" /\ OnLiveCard /\ c_prev.op = "set_expanded"
          /\ c_prev.obj = OBJ /\ c_prev.arg = c_arg) =>
         cd.expanded = c_old.expanded

\* an expanded card was toggled twice and is expanded again
C12_Witness ==
    /\ c_op = "toggle"
    /\ OnLiveCard
    /\ c_prev.op = "toggle"
    /\ c_prev.obj = OBJ
    /\ c_prev.was
    /\ ~c_old.expanded
    /\ cd.expanded

\* the last operation expanded (to = TRUE) or collapsed (to = FALSE) the
\* live card
ExpansionChangedTo(to) ==
    /\ c_op \in {"click", "toggle", "set_expanded"}
    /\ OnLiveCard
    /\ c_old.expanded # to
    /\ cd.expanded = to

\* C13: every operation that expands the card (click on the expand button,
\* toggle, set_expanded) calls the configured on_expand, every operation that
\* collapses it calls the configured on_collapse, and an operation that
\* leaves the expansion state as it was calls neither.
C13_CallbacksOnChange ==
    /\ (ExpansionChangedTo(TRUE) /\ cd.config.on_expand # NULL) =>
         c_calls = <<"on_expand">>
    /\ (ExpansionChangedTo(FALSE) /\ cd.config.on_collapse # NULL) =>
         c_calls = <<"on_collapse">>
    /\ (c_op \in {"click", "toggle", "set_expanded"}
          /\ cd.expanded = c_old.expanded) =>
         c_calls = <<>>

\* C14: a widget's data block is freed exactly once, by the delete handler of
\* its container, and never while a live container holds it as user data,
\* also when creation fails part-way: no container carries a dangling user
\* data pointer, no block is freed twice and no freed block is used.
C14_MemoryOwnership ==
    /\ g_container => g_user_data # "dangling"
    /\ g_frees <= 1
    /\ ~g_uaf
    /\ c_container <=> (c_user_data = "live" /\ c_blocks = 1)
    /\ p_container <=> (p_user_data = "live" /\ p_blocks = 1)

\* the last operation was handed NULL or an object without widget data
OnNoGallery == g_obj \in {NULL, PLAIN}

OnNoPull == p_obj \in {NULL, PLAIN}

OnNoCard == c_obj \in {NULL, PLAIN}

\* C17: a public widget operation called with a NULL object, or with an
\* object that carries no widget data, changes no state and makes no
\* callback: get_index returns -1, set_index and set_expanded return false,
\* is_expanded and is_refreshing return false, get_pull_distance returns 0,
\* and next, prev, toggle, complete, set_refreshing and set_enabled do
\* nothing.
C17_NullObjectNoOp ==
    /\ (OnNoGallery /\ g_op \in {"next", "prev", "set_index", "get_index"}) =>
         /\ current_index = g_old.index
         /\ g_shown = g_old.shown
         /\ g_op = "get_index" => g_ret = -1
         /\ g_op = "set_index" => g_ret = FALSE
    /\ (OnNoPull /\ p_op \in {"complete", "set_refreshing", "set_enabled",
                              "is_refreshing", "get_pull_distance"}) =>
         /\ pd = p_old.data
         /\ p_hist = p_old.hist
         /\ p_calls = <<>>
         /\ p_op = "is_refreshing" => p_ret = "false"
         /\ p_op = "get_pull_distance" => p_ret = "zero"
    /\ (OnNoCard /\ c_op \in {"set_expanded", "is_expanded", "toggle"}) =>
         /\ cd = c_old
         /\ c_calls = <<>>
         /\ c_op = "set_expanded" => c_ret = FALSE
         /\ c_op = "is_expanded" => c_ret = FALSE

\* set_index(NULL, 1) on a gallery of several images showing the first one
\* returned false and the first image is still shown
C17_Witness ==
    /\ g_op = "set_index"
    /\ g_obj = NULL
    /\ g_arg = 1
    /\ g_user_data = "live"
    /\ image_count > 1
    /\ g_ret = FALSE
    /\ current_index = 0

====
